---- MODULE Spec2Model ----
(***************************************************************************)
(* Model of src/main.go: a command-line program that performs one HTTP(S)   *)
(* GET over a shared http.Transport whose DialContext hook replaces the     *)
(* dialed address by an override carried in the request's context.          *)
(*                                                                          *)
(* Strings are sequences of one-character strings, so that url.Parse,       *)
(* URL.Hostname/Port, strings.ToLower and net.JoinHostPort are computed as  *)
(* the Go code computes them.  The URLs of the model use letters, digits    *)
(* and the punctuation  : / . [ ]  only (no userinfo, query, fragment or    *)
(* percent escape, and ASCII host names, which idna leaves unchanged).      *)
(***************************************************************************)
EXTENDS Integers, Sequences, FiniteSets, TLC

\* ------------------------------------------------------------ strings
Lowers == {"a", "b", "c", "f", "h", "p", "s", "t", "x"}
Uppers == {"H", "P", "S", "T"}
Digits == {"0", "1", "3", "4", "8", "9"}

HasPrefix(s, p) == Len(s) >= Len(p) /\ SubSeq(s, 1, Len(p)) = p

HasSuffix(s, p) == Len(s) >= Len(p) /\ SubSeq(s, Len(s) - Len(p) + 1, Len(s)) = p

\* strings.Index for a one-byte needle, 1-based; 0 stands for Go's -1
IndexByte(s, c) ==
    IF \E i \in 1..Len(s) : s[i] = c
    THEN CHOOSE i \in 1..Len(s) : s[i] = c /\ \A j \in 1..(i - 1) : s[j] # c
    ELSE 0

\* strings.LastIndex for a one-byte needle, 1-based; 0 stands for Go's -1
LastIndexByte(s, c) ==
    IF \E i \in 1..Len(s) : s[i] = c
    THEN CHOOSE i \in 1..Len(s) : s[i] = c /\ \A j \in (i + 1)..Len(s) : s[j] # c
    ELSE 0

\* s[i:] of Go with a 1-based first index
From(s, i) == SubSeq(s, i, Len(s))

ToLowerChar(c) ==
    CASE c = "H" -> "h"
      [] c = "P" -> "p"
      [] c = "S" -> "s"
      [] c = "T" -> "t"
      [] OTHER -> c

\* strings.ToLower
ToLower(s) == [i \in 1..Len(s) |-> ToLowerChar(s[i])]

\* ------------------------------------------------------------ net/url
\* url.validOptionalPort
validOptionalPort(port) ==
    \/ port = <<>>
    \/ /\ port[1] = ":"
       /\ \A i \in 2..Len(port) : port[i] \in Digits

\* url.splitHostPort: <<host, port>>
splitHostPort(hostPort) ==
    LET colon == LastIndexByte(hostPort, ":")
        cut   == colon # 0 /\ validOptionalPort(From(hostPort, colon))
        h     == IF cut THEN SubSeq(hostPort, 1, colon - 1) ELSE hostPort
        p     == IF cut THEN From(hostPort, colon + 1) ELSE <<>>
        h2    == IF HasPrefix(h, <<"[">>) /\ HasSuffix(h, <<"]">>)
                 THEN SubSeq(h, 2, Len(h) - 1) ELSE h
    IN  <<h2, p>>

\* (*url.URL).Hostname
Hostname(u) == splitHostPort(u.Host)[1]

\* (*url.URL).Port
Port(u) == splitHostPort(u.Host)[2]

\* url.getScheme: [scheme, rest, err]
getScheme(rawURL) ==
    LET isLetter(c) == c \in Lowers \cup Uppers
        isOther(c)  == c \in Digits \cup {"."}
        stops == {i \in 1..Len(rawURL) :
                     /\ ~isLetter(rawURL[i])
                     /\ ~(isOther(rawURL[i]) /\ i > 1)}
        i == CHOOSE k \in stops : \A j \in stops : k <= j
    IN  IF stops = {} THEN [scheme |-> <<>>, rest |-> rawURL, err |-> FALSE]
        ELSE IF rawURL[i] = ":"
             THEN IF i = 1
                  THEN [scheme |-> <<>>, rest |-> <<>>, err |-> TRUE]
                  ELSE [scheme |-> SubSeq(rawURL, 1, i - 1),
                        rest |-> From(rawURL, i + 1), err |-> FALSE]
             ELSE [scheme |-> <<>>, rest |-> rawURL, err |-> FALSE]

\* url.parseHost: TRUE when the authority is rejected
parseHostErr(host) ==
    IF HasPrefix(host, <<"[">>)
    THEN LET i == LastIndexByte(host, "]")
         IN  i = 0 \/ ~validOptionalPort(From(host, i + 1))
    ELSE LET i == LastIndexByte(host, ":")
         IN  i # 0 /\ ~validOptionalPort(From(host, i))

\* url.Parse: [Scheme, Host, err]
Parse(rawURL) ==
    LET gs     == getScheme(rawURL)
        scheme == ToLower(gs.scheme)
        rest   == gs.rest
        slash  == IndexByte(rest, "/")
        seg    == IF slash = 0 THEN rest ELSE SubSeq(rest, 1, slash - 1)
        auth0  == From(rest, 3)
        aslash == IndexByte(auth0, "/")
        auth   == IF aslash = 0 THEN auth0 ELSE SubSeq(auth0, 1, aslash - 1)
        bad    == [Scheme |-> <<>>, Host |-> <<>>, err |-> TRUE]
    IN  IF gs.err THEN bad
        ELSE IF ~HasPrefix(rest, <<"/">>) /\ scheme # <<>>
        THEN [Scheme |-> scheme, Host |-> <<>>, err |-> FALSE]
        ELSE IF ~HasPrefix(rest, <<"/">>) /\ IndexByte(seg, ":") # 0
        THEN bad
        ELSE IF /\ (scheme # <<>> \/ ~HasPrefix(rest, <<"/", "/", "/">>))
                /\ HasPrefix(rest, <<"/", "/">>)
        THEN IF parseHostErr(auth) THEN bad
             ELSE [Scheme |-> scheme, Host |-> auth, err |-> FALSE]
        ELSE [Scheme |-> scheme, Host |-> <<>>, err |-> FALSE]

\* ------------------------------------------------------------ net
\* net.JoinHostPort
JoinHostPort(host, port) ==
    IF IndexByte(host, ":") # 0
    THEN <<"[">> \o host \o <<"]", ":">> \o port
    ELSE host \o <<":">> \o port

\* ------------------------------------------------------------ inputs
\* the longest argument list tried (os.Args without the program name)
MaxArgs == 3
\* the longest response body the server sends
MaxBodyLen == 2
\* the most connections the transport dials for one request
MaxDials == 2

sHTTP  == <<"h", "t", "t", "p">>
sHTTPS == <<"h", "t", "t", "p", "s">>
p80    == <<"8", "0">>
p443   == <<"4", "4", "3">>

Schemes == {sHTTP, sHTTPS, <<"H", "T", "T", "P">>, <<"H", "t", "t", "p", "S">>,
            <<"f", "t", "p">>}
Hosts == {<<"a">>, <<"b", ".", "c">>}
PortSuffixes == {<<>>, <<":">>, <<":", "8">>, <<":", "8", "0">>}
Paths == {<<>>, <<"/", "x">>}

WellFormedURLs ==
    {s \o <<":", "/", "/">> \o h \o p \o q :
        s \in Schemes, h \in Hosts, p \in PortSuffixes, q \in Paths}

OtherURLs ==
    { <<>>,                                          \* ""
      <<"a">>,                                       \* "a"
      <<":", "/", "/", "a">>,                        \* "://a"
      <<"1", "a", ":", "8">>,                        \* "1a:8"
      <<"/", "/", "a">>,                             \* "//a"
      <<"/", "/", "a", ":", "8">>,                   \* "//a:8"
      sHTTP \o <<":", "a">>,                         \* "http:a"
      sHTTP \o <<":", "/", "/">>,                    \* "http://"
      sHTTP \o <<":", "/", "/", ":", "8">>,          \* "http://:8"
      sHTTP \o <<":", "/", "/", "a", ":", "x">>,     \* "http://a:x"
      sHTTPS \o <<":", "/", "/", "[", ":", ":", "1", "]">>,            \* "https://[::1]"
      sHTTP \o <<":", "/", "/", "[", ":", ":", "1", "]", ":", "8">>,   \* "http://[::1]:8"
      sHTTP \o <<":", "/", "/", "[", ":", ":", "1">> }                 \* "http://[::1"

URLs == WellFormedURLs \cup OtherURLs

\* the [ip] argument: empty, an IPv4 address, one with a port embedded, an
\* IPv6 address, a host name
IPs == { <<>>, <<"9", ".", "9">>, <<"9", ".", "9", ":", "4">>, <<":", ":", "1">>,
         <<"b", ".", "c">> }

Filler(n) == [i \in 1..n |-> <<"x">>]

ArgLists ==
    {<<>>} \cup {<<u>> : u \in URLs} \cup {<<u, i>> : u \in URLs, i \in IPs} \cup
    {<<sHTTP \o <<":", "/", "/", "a">>, i>> \o Filler(n) : i \in IPs, n \in 1..(MaxArgs - 2)}

\* the host name the certificate of the dialed server is valid for
CertNames == Hosts \cup {<<"9", ".", "9">>, <<":", ":", "1">>}

DialOutcomes == {"connected", "timeout", "refused"}
Statuses == {"200 OK", "404 Not Found"}
\* the protocol the server selects in the handshake (ForceAttemptHTTP2 offers h2)
ALPNs == {"h2", "http/1.1"}
\* resp.Proto of a response read from an HTTP/1 connection
Protos == {"HTTP/1.0", "HTTP/1.1"}

\* resp.Header: a map from a header name to the sequence of its values
HeaderMaps ==
    { [n \in {} |-> <<>>],
      [n \in {"Server"} |-> <<"x">>],
      [n \in {"Server", "Set-Cookie"} |->
          IF n = "Server" THEN <<"x">> ELSE <<"a", "b">>] }

\* ------------------------------------------------------------ main.go
NoURL == [Scheme |-> <<>>, Host |-> <<>>]

\* context.Background()
Background == [val |-> <<>>, ok |-> FALSE]

withDialOverride(ctx, addr) == [val |-> addr, ok |-> TRUE]

\* <<val, ok>>
dialOverrideFromContext(ctx) == <<ctx.val, ctx.ok>>

\* a DialContext that never consults the context
DialContextAddrIgnoringOverride(ctx, addr) == addr

\* the address sharedTransport.DialContext hands to defaultDialer.DialContext
DialContextAddr(ctx, addr) ==
    LET r == dialOverrideFromContext(ctx)
    IN  IF r[2] THEN r[1] ELSE addr

\* a pickPort that looks at the scheme before the explicit port
pickPortSchemeFirst(parsedURL) ==
    LET port == Port(parsedURL)
        s    == ToLower(parsedURL.Scheme)
    IN  IF s = sHTTPS THEN [port |-> p443, fatal |-> FALSE]
        ELSE IF s = sHTTP THEN [port |-> p80, fatal |-> FALSE]
        ELSE IF port # <<>> THEN [port |-> port, fatal |-> FALSE]
        ELSE [port |-> <<>>, fatal |-> TRUE]

\* a pickPort whose default case returns "" instead of ending the program
pickPortWithoutFatal(parsedURL) ==
    LET port == Port(parsedURL)
        s    == ToLower(parsedURL.Scheme)
    IN  IF port # <<>> THEN [port |-> port, fatal |-> FALSE]
        ELSE IF s = sHTTPS THEN [port |-> p443, fatal |-> FALSE]
        ELSE IF s = sHTTP THEN [port |-> p80, fatal |-> FALSE]
        ELSE [port |-> <<>>, fatal |-> FALSE]

\* pickPort: [port, fatal]; fatal is log.Fatalf("unknown url scheme ...")
pickPort(parsedURL) ==
    LET port == Port(parsedURL)
        s    == ToLower(parsedURL.Scheme)
    IN  IF port # <<>> THEN [port |-> port, fatal |-> FALSE]
        ELSE IF s = sHTTPS THEN [port |-> p443, fatal |-> FALSE]
        ELSE IF s = sHTTP THEN [port |-> p80, fatal |-> FALSE]
        ELSE [port |-> <<>>, fatal |-> TRUE]

\* dialHost and dialAddr of main
DialAddr(h, i, p) ==
    LET dialHost == IF i # <<>> THEN i ELSE h
    IN  JoinHostPort(dialHost, p)

\* ------------------------------------------------------------ net/http
\* http.removeEmptyPort
removeEmptyPort(h) ==
    IF LastIndexByte(h, ":") > LastIndexByte(h, "]") /\ HasSuffix(h, <<":">>)
    THEN SubSeq(h, 1, Len(h) - 1) ELSE h

\* http.NewRequest(http.MethodGet, urlStr, nil): [URL, Host, ctx, err]
NewRequest(rawURL) ==
    LET u == Parse(rawURL)
        h == removeEmptyPort(u.Host)
    IN  [URL |-> [Scheme |-> u.Scheme, Host |-> h], Host |-> h,
         ctx |-> Background, err |-> u.err]

\* an override attached by rewriting the request's host to the dial address
WithContextRewritingHost(r, ctx) ==
    [r EXCEPT !.ctx = ctx, !.Host = ctx.val, !.URL.Host = ctx.val]

\* (*http.Request).WithContext: a shallow copy with the context replaced
WithContext(r, ctx) == [r EXCEPT !.ctx = ctx]

\* the checks of http.Transport.roundTrip made before any connection is sought
RoundTripRejects(r) ==
    \/ r.URL.Scheme \notin {sHTTP, sHTTPS}
    \/ r.URL.Host = <<>>

\* http.portMap: the default port of a scheme, "" for a scheme it does not
\* hold (its socks5 entries cannot be spelled in the alphabet of the URLs)
portMap(scheme) ==
    IF scheme = sHTTP THEN p80
    ELSE IF scheme = sHTTPS THEN p443
    ELSE <<>>

\* http.canonicalAddr: the logical address the transport passes to DialContext
canonicalAddr(u) ==
    LET port == Port(u)
    IN  JoinHostPort(Hostname(u), IF port # <<>> THEN port ELSE portMap(u.Scheme))

\* net.SplitHostPort: [host, port, err]; the transport takes the ServerName
\* of the handshake from it (dialConn: net.SplitHostPort(cm.addr()))
SplitHostPort(hostport) ==
    LET i    == LastIndexByte(hostport, ":")
        end  == IndexByte(hostport, "]")
        bad  == [host |-> <<>>, port |-> <<>>, err |-> TRUE]
        port == From(hostport, i + 1)
    IN  IF i = 0 THEN bad
        ELSE IF hostport[1] = "["
        THEN IF \/ end = 0
                \/ end + 1 # i
                \/ IndexByte(From(hostport, 2), "[") # 0
                \/ IndexByte(From(hostport, end + 1), "]") # 0
             THEN bad
             ELSE [host |-> SubSeq(hostport, 2, end - 1), port |-> port, err |-> FALSE]
        ELSE IF \/ IndexByte(SubSeq(hostport, 1, i - 1), ":") # 0
                \/ IndexByte(hostport, "[") # 0
                \/ IndexByte(hostport, "]") # 0
             THEN bad
             ELSE [host |-> SubSeq(hostport, 1, i - 1), port |-> port, err |-> FALSE]

\* the name x509 matches the certificate against (brackets of an IP stripped)
VerifyTarget(serverName) ==
    IF Len(serverName) >= 3 /\ HasPrefix(serverName, <<"[">>)
                            /\ HasSuffix(serverName, <<"]">>)
    THEN SubSeq(serverName, 2, Len(serverName) - 1) ELSE serverName

\* a transport configured with InsecureSkipVerify
VerifyHostnameSkipped(cert, serverName) == TRUE

\* certificate verification of the transport's default TLS configuration
\* (sharedTransport sets no TLSClientConfig, so InsecureSkipVerify is false)
VerifyHostname(cert, serverName) == cert = VerifyTarget(serverName)

\* ------------------------------------------------------------ state of one run of main
VARIABLES
    argv,        \* os.Args[1:]
    pc,          \* the position of main
    urlStr, ip, parsedURL, host, port, dialAddr, req,   \* locals of main
    roundTrips,  \* calls of sharedRoundTripper.RoundTrip
    dialLog,     \* calls of defaultDialer.DialContext: [logical, addr, outcome]
    tlsLog,      \* handshakes: [serverName, cert, alpn]
    resp,        \* the response RoundTrip returned: [got, Status, Proto]
    body,        \* [read, len]: io.ReadAll returned without error, len(body)
    bodyClosed,  \* resp.Body.Close() has run
    idleClosed,  \* sharedTransport.CloseIdleConnections() has run
    stdout,      \* the lines printed by fmt.Printf
    fatal,       \* the message of the log.Fatalf or usage exit taken, "" if none
    exitCode     \* -1 while running

vars == <<argv, pc, urlStr, ip, parsedURL, host, port, dialAddr, req, roundTrips,
              dialLog, tlsLog, resp, body, bodyClosed, idleClosed, stdout, fatal,
              exitCode>>

NoResp == [got |-> FALSE, Status |-> "", Proto |-> "", Header |-> <<>>]
NoReq == [URL |-> NoURL, Host |-> <<>>, ctx |-> Background, err |-> FALSE]

Init ==
    /\ argv \in ArgLists
    /\ pc = "main"
    /\ urlStr = <<>>
    /\ ip = <<>>
    /\ parsedURL = NoURL
    /\ host = <<>>
    /\ port = <<>>
    /\ dialAddr = <<>>
    /\ req = NoReq
    /\ roundTrips = 0
    /\ dialLog = <<>>
    /\ tlsLog = <<>>
    /\ resp = NoResp
    /\ body = [read |-> FALSE, len |-> 0]
    /\ bodyClosed = FALSE
    /\ idleClosed = FALSE
    /\ stdout = <<>>
    /\ fatal = ""
    /\ exitCode = -1

\* log.Fatalf(msg): the message is logged and os.Exit(1) ends the process at
\* once; deferred calls do not run
Fatalf(msg) ==
    /\ fatal' = msg
    /\ exitCode' = 1
    /\ pc' = "exited"

\* main, lines 55-64
CheckArgs ==
    /\ pc = "main"
    /\ IF Len(argv) + 1 < 2 \/ Len(argv) + 1 > 3
       THEN /\ fatal' = "usage"
            /\ exitCode' = 1
            /\ pc' = "exited"
            /\ UNCHANGED <<urlStr, ip>>
       ELSE /\ urlStr' = argv[1]
            /\ ip' = IF Len(argv) + 1 = 3 THEN argv[2] ELSE <<>>
            /\ pc' = "parse"
            /\ UNCHANGED <<fatal, exitCode>>
    /\ UNCHANGED <<argv, parsedURL, host, port, dialAddr, req, roundTrips, dialLog,
                   tlsLog, resp, body, bodyClosed, idleClosed, stdout>>

\* main, lines 66-69
ParseURL ==
    /\ pc = "parse"
    /\ LET u == Parse(urlStr)
       IN  IF u.err
           THEN Fatalf("parsing url failed") /\ UNCHANGED parsedURL
           ELSE /\ parsedURL' = [Scheme |-> u.Scheme, Host |-> u.Host]
                /\ pc' = "host"
                /\ UNCHANGED <<fatal, exitCode>>
    /\ UNCHANGED <<argv, urlStr, ip, host, port, dialAddr, req, roundTrips, dialLog,
                   tlsLog, resp, body, bodyClosed, idleClosed, stdout>>

\* main, lines 70-73
CheckHost ==
    /\ pc = "host"
    /\ host' = Hostname(parsedURL)
    /\ IF host' = <<>>
       THEN Fatalf("url missing host")
       ELSE pc' = "port" /\ UNCHANGED <<fatal, exitCode>>
    /\ UNCHANGED <<argv, urlStr, ip, parsedURL, port, dialAddr, req, roundTrips,
                   dialLog, tlsLog, resp, body, bodyClosed, idleClosed, stdout>>

\* a main that resolves the port only after submitting the request
PickPortAfterRoundTrip ==
    /\ pc = "port"
    /\ roundTrips' = roundTrips + 1
    /\ LET r == pickPort(parsedURL)
       IN  IF r.fatal
           THEN Fatalf("unknown url scheme") /\ UNCHANGED port
           ELSE /\ port' = r.port
                /\ pc' = "build"
                /\ UNCHANGED <<fatal, exitCode>>
    /\ UNCHANGED <<argv, urlStr, ip, parsedURL, host, dialAddr, req,
                   dialLog, tlsLog, resp, body, bodyClosed, idleClosed, stdout>>

\* main, line 74
PickPort ==
    /\ pc = "port"
    /\ LET r == pickPort(parsedURL)
       IN  IF r.fatal
           THEN Fatalf("unknown url scheme") /\ UNCHANGED port
           ELSE /\ port' = r.port
                /\ pc' = "build"
                /\ UNCHANGED <<fatal, exitCode>>
    /\ UNCHANGED <<argv, urlStr, ip, parsedURL, host, dialAddr, req, roundTrips,
                   dialLog, tlsLog, resp, body, bodyClosed, idleClosed, stdout>>

\* main, lines 76-89
BuildRequest ==
    /\ pc = "build"
    /\ dialAddr' = DialAddr(host, ip, port)
    /\ LET r == NewRequest(urlStr)
       IN  IF r.err
           THEN Fatalf("building request failed") /\ UNCHANGED req
           ELSE /\ req' = IF ip # <<>>
                          THEN WithContext(r, withDialOverride(r.ctx, dialAddr'))
                          ELSE r
                /\ pc' = "roundtrip"
                /\ UNCHANGED <<fatal, exitCode>>
    /\ UNCHANGED <<argv, urlStr, ip, parsedURL, host, port, roundTrips, dialLog,
                   tlsLog, resp, body, bodyClosed, idleClosed, stdout>>

\* main, line 91, and loggingTransport.RoundTrip, which delegates to
\* sharedTransport: the transport rejects the request or looks for a connection
RoundTrip ==
    /\ pc = "roundtrip"
    /\ roundTrips' = roundTrips + 1
    /\ IF RoundTripRejects(req)
       THEN Fatalf("request failed")
       ELSE pc' = "dial" /\ UNCHANGED <<fatal, exitCode>>
    /\ UNCHANGED <<argv, urlStr, ip, parsedURL, host, port, dialAddr, req, dialLog,
                   tlsLog, resp, body, bodyClosed, idleClosed, stdout>>

\* sharedTransport.DialContext, called by the transport with the request's
\* context and the logical address; the dial succeeds, times out or is refused
DialContext ==
    /\ pc = "dial"
    /\ \E outcome \in DialOutcomes :
          /\ dialLog' = Append(dialLog,
                 [logical |-> canonicalAddr(req.URL),
                  addr    |-> DialContextAddr(req.ctx, canonicalAddr(req.URL)),
                  outcome |-> outcome])
          /\ IF outcome # "connected"
             THEN Fatalf("request failed")
             ELSE /\ pc' = IF req.URL.Scheme = sHTTPS THEN "tls" ELSE "headers"
                  /\ UNCHANGED <<fatal, exitCode>>
    /\ UNCHANGED <<argv, urlStr, ip, parsedURL, host, port, dialAddr, req, roundTrips,
                   tlsLog, resp, body, bodyClosed, idleClosed, stdout>>

\* the TLS handshake of the transport on the dialed connection: the server
\* presents a certificate, verified against the logical host, and selects
\* the protocol
TLSHandshake ==
    /\ pc = "tls"
    /\ LET sp == SplitHostPort(canonicalAddr(req.URL))
       IN  IF sp.err
           THEN Fatalf("request failed") /\ UNCHANGED tlsLog
           ELSE \E cert \in CertNames, alpn \in ALPNs :
                   /\ tlsLog' = Append(tlsLog, [serverName |-> sp.host,
                                                cert |-> cert, alpn |-> alpn])
                   /\ IF VerifyHostname(cert, sp.host)
                      THEN pc' = "headers" /\ UNCHANGED <<fatal, exitCode>>
                      ELSE Fatalf("request failed")
    /\ UNCHANGED <<argv, urlStr, ip, parsedURL, host, port, dialAddr, req, roundTrips,
                   dialLog, resp, body, bodyClosed, idleClosed, stdout>>

\* the connection of the request speaks HTTP/2 (https and h2 selected)
OverHTTP2 ==
    /\ req.URL.Scheme = sHTTPS
    /\ tlsLog # <<>>
    /\ tlsLog[Len(tlsLog)].alpn = "h2"

\* a round trip that is submitted again after a failure, once
AwaitHeadersRetrying ==
    /\ pc = "headers"
    /\ \/ \E st \in Statuses, hd \in HeaderMaps,
               pr \in IF OverHTTP2 THEN {"HTTP/2.0"} ELSE Protos :
             /\ resp' = [got |-> TRUE, Status |-> st, Proto |-> pr, Header |-> hd]
             /\ pc' = "read"
             /\ UNCHANGED <<fatal, exitCode>>
       \/ /\ roundTrips < 2
          /\ pc' = "roundtrip"
          /\ UNCHANGED <<resp, fatal, exitCode>>
       \/ /\ roundTrips >= 2
          /\ Fatalf("request failed")
          /\ UNCHANGED resp
    /\ UNCHANGED <<argv, urlStr, ip, parsedURL, host, port, dialAddr, req, roundTrips,
                   dialLog, tlsLog, body, bodyClosed, idleClosed, stdout>>

\* the transport writes the request and waits for the response headers;
\* RoundTrip returns the response or an error (main, lines 91-96), or, when
\* an HTTP/2 server refuses the stream (GOAWAY, REFUSED_STREAM), the
\* transport's retry loop looks for a connection again inside the same
\* RoundTrip call and dials anew
AwaitHeaders ==
    /\ pc = "headers"
    /\ \/ \E st \in Statuses, hd \in HeaderMaps,
               pr \in IF OverHTTP2 THEN {"HTTP/2.0"} ELSE Protos :
             /\ resp' = [got |-> TRUE, Status |-> st, Proto |-> pr, Header |-> hd]
             /\ pc' = "read"
             /\ UNCHANGED <<fatal, exitCode>>
       \/ Fatalf("request failed") /\ UNCHANGED resp
       \/ /\ OverHTTP2
          /\ Len(dialLog) < MaxDials
          /\ pc' = "dial"
          /\ UNCHANGED <<resp, fatal, exitCode>>
    /\ UNCHANGED <<argv, urlStr, ip, parsedURL, host, port, dialAddr, req, roundTrips,
                   dialLog, tlsLog, body, bodyClosed, idleClosed, stdout>>

\* a main that prints the response although io.ReadAll failed
ReadBodyIgnoringError ==
    /\ pc = "read"
    /\ \/ \E n \in 0..MaxBodyLen :
             /\ body' = [read |-> TRUE, len |-> n]
             /\ pc' = "print"
       \/ /\ pc' = "print"
          /\ UNCHANGED body
    /\ UNCHANGED <<argv, urlStr, ip, parsedURL, host, port, dialAddr, req, roundTrips,
                   dialLog, tlsLog, resp, bodyClosed, idleClosed, stdout, fatal,
                   exitCode>>

\* main, lines 98-101
ReadBody ==
    /\ pc = "read"
    /\ \/ \E n \in 0..MaxBodyLen :
             /\ body' = [read |-> TRUE, len |-> n]
             /\ pc' = "print"
             /\ UNCHANGED <<fatal, exitCode>>
       \/ Fatalf("read failed") /\ UNCHANGED body
    /\ UNCHANGED <<argv, urlStr, ip, parsedURL, host, port, dialAddr, req, roundTrips,
                   dialLog, tlsLog, resp, bodyClosed, idleClosed, stdout>>

\* the orders in which a range over a Go map may visit its keys
KeyOrders(m) ==
    {o \in [1..Cardinality(DOMAIN m) -> DOMAIN m] :
        \A i, j \in DOMAIN o : i # j => o[i] # o[j]}

\* the lines of one header name, one per value, in the order of the values
ValueLines(k, vals) ==
    [i \in 1..Len(vals) |-> [line |-> "  k: v", key |-> k, val |-> vals[i]]]

\* the lines of lines 106-110 for the keys order[from], order[from+1], ...
RECURSIVE HeaderLines(_, _, _)
HeaderLines(m, order, from) ==
    IF from > Len(order) THEN <<>>
    ELSE ValueLines(order[from], m[order[from]]) \o HeaderLines(m, order, from + 1)

\* main, lines 103-111
PrintResponse ==
    /\ pc = "print"
    /\ \E order \in KeyOrders(resp.Header) :
          stdout' = <<[line |-> "Status", key |-> "", val |-> resp.Status],
                      [line |-> "Protocol", key |-> "", val |-> resp.Proto],
                      [line |-> "Headers", key |-> "", val |-> ""]>>
                    \o HeaderLines(resp.Header, order, 1)
                    \o <<[line |-> "Body length", key |-> "", val |-> body.len]>>
    /\ pc' = "return"
    /\ UNCHANGED <<argv, urlStr, ip, parsedURL, host, port, dialAddr, req, roundTrips,
                   dialLog, tlsLog, resp, body, bodyClosed, idleClosed, fatal,
                   exitCode>>

\* main returns (line 112): the deferred calls of lines 95-96 run, last first
Return ==
    /\ pc = "return"
    /\ idleClosed' = TRUE
    /\ bodyClosed' = TRUE
    /\ exitCode' = 0
    /\ pc' = "exited"
    /\ UNCHANGED <<argv, urlStr, ip, parsedURL, host, port, dialAddr, req, roundTrips,
                   dialLog, tlsLog, resp, body, stdout, fatal>>

Next ==
    \/ CheckArgs
    \/ ParseURL
    \/ CheckHost
    \/ PickPort
    \/ BuildRequest
    \/ RoundTrip
    \/ DialContext
    \/ TLSHandshake
    \/ AwaitHeaders
    \/ ReadBody
    \/ PrintResponse
    \/ Return

Spec == Init /\ [][Next]_vars

\* ------------------------------------------------------------ the states of a fetch
\* the state of the fetch executor at each position of main
State ==
    IF pc = "main" THEN "Unstarted"
    ELSE IF pc \in {"parse", "host", "port", "build", "roundtrip"} THEN "Resolving"
    ELSE IF pc \in {"dial", "tls"} THEN "Dialing"
    ELSE IF pc = "headers" THEN "AwaitingHeaders"
    ELSE IF pc = "read" THEN "ReadingBody"
    ELSE IF pc \in {"print", "return"} THEN "Done"
    ELSE IF exitCode = 0 THEN "Done"
    ELSE IF fatal = "usage" THEN "Unstarted"
    ELSE "Failed"

Rank(st) ==
    CASE st = "Unstarted" -> 0
      [] st = "Resolving" -> 1
      [] st = "Dialing" -> 2
      [] st = "AwaitingHeaders" -> 3
      [] st = "ReadingBody" -> 4
      [] st = "Done" -> 5
      [] OTHER -> 6

\* pickPort has been called (main is past line 74, or pickPort ended the program)
PickPortCalled ==
    \/ pc \in {"build", "roundtrip", "dial", "tls", "headers", "read", "print", "return"}
    \/ pc = "exited" /\ fatal \notin {"usage", "parsing url failed", "url missing host"}

\* the override argument was supplied
Overridden == ip # <<>>

\* ------------------------------------------------------------ claims
\* C1: every address handed to the dialer is H:P (net.JoinHostPort form), P
\* the port pickPort resolved and H the override when one is supplied, the
\* URL's host otherwise; P never comes from the override or the logical address.
C1_DialAddress ==
    \A k \in 1..Len(dialLog) :
        LET d == dialLog[k]
            H == IF Overridden THEN ip ELSE host
        IN  /\ d.addr = JoinHostPort(H, port)
            /\ splitHostPort(d.addr) = <<H, port>>

C1_Witness ==
    /\ dialLog # <<>>
    /\ ip = <<"9", ".", "9", ":", "4">>
    /\ Port(parsedURL) = <<>>
    /\ dialLog[1].addr # dialLog[1].logical

\* C2: with or without an override the request's URL and Host are those
\* http.NewRequest derives from the input URL, and the URL's host, the Host
\* header's host and the name every certificate is verified against are the
\* host of the input URL.
C2_LogicalIdentity ==
    /\ pc \in {"roundtrip", "dial", "tls", "headers", "read", "print", "return"} =>
          /\ req.URL = NewRequest(urlStr).URL
          /\ req.Host = NewRequest(urlStr).Host
          /\ Hostname(req.URL) = Hostname(Parse(urlStr))
          /\ splitHostPort(req.Host)[1] = Hostname(Parse(urlStr))
    /\ \A k \in 1..Len(tlsLog) :
          tlsLog[k].serverName = Hostname(Parse(urlStr))

C2_Witness ==
    /\ Overridden
    /\ req.ctx.ok
    /\ tlsLog # <<>>
    /\ dialLog[1].addr # dialLog[1].logical
    /\ pc = "headers"

\* C3: an https fetch with an override whose server presents a certificate
\* that is not valid for the URL's host ends failed ("request failed", exit
\* code 1), with no response obtained and nothing printed.
C3_BadCertificateFails ==
    \A k \in 1..Len(tlsLog) :
        Overridden /\ tlsLog[k].cert # host =>
            /\ pc = "exited"
            /\ exitCode = 1
            /\ fatal = "request failed"
            /\ ~resp.got
            /\ stdout = <<>>

C3_Witness ==
    /\ Overridden
    /\ tlsLog # <<>>
    /\ tlsLog[1].cert = ip
    /\ tlsLog[1].cert # host
    /\ fatal = "request failed"

\* C4: for a URL with an explicit port, pickPort returns that port whatever
\* the scheme, and never ends the program with "unknown url scheme".
C4_ExplicitPortWins ==
    PickPortCalled /\ Port(parsedURL) # <<>> =>
        /\ port = Port(parsedURL)
        /\ fatal # "unknown url scheme"

C4_Witness ==
    /\ PickPortCalled
    /\ Port(parsedURL) = <<"8">>
    /\ parsedURL.Scheme \notin {sHTTP, sHTTPS}
    /\ port = <<"8">>

\* C5: for a URL without an explicit port, pickPort returns 80 for http and
\* 443 for https and ends the program with "unknown url scheme" for every
\* other scheme; after a successful resolution the port is never empty.
C5_DefaultPort ==
    /\ PickPortCalled /\ Port(parsedURL) = <<>> =>
          /\ parsedURL.Scheme = sHTTP => port = p80 /\ fatal # "unknown url scheme"
          /\ parsedURL.Scheme = sHTTPS => port = p443 /\ fatal # "unknown url scheme"
          /\ parsedURL.Scheme \notin {sHTTP, sHTTPS} =>
                fatal = "unknown url scheme" /\ exitCode = 1 /\ pc = "exited"
    /\ PickPortCalled /\ fatal # "unknown url scheme" => port # <<>>

C5_Witness ==
    /\ fatal = "unknown url scheme"
    /\ parsedURL.Scheme = <<"f", "t", "p">>
    /\ Port(parsedURL) = <<>>

\* C6: something of the response is printed only after the body was read to
\* its end without error; when the round trip or the read fails nothing is
\* printed and the program exits with code 1.
C6_NoPartialSuccess ==
    /\ stdout # <<>> => resp.got /\ body.read /\ fatal = ""
    /\ fatal \in {"request failed", "read failed"} => stdout = <<>> /\ exitCode = 1

C6_Witness ==
    /\ fatal = "read failed"
    /\ resp.got
    /\ pc = "exited"

\* C7: whenever a response was obtained, the body and the idle connections
\* are closed by the time the program has terminated.
C7_ReleasedOnEveryExit ==
    pc = "exited" /\ resp.got => bodyClosed /\ idleClosed

\* C8 as stated: the states follow Unstarted, Resolving, Dialing,
\* AwaitingHeaders, ReadingBody, Done in order; Failed is entered only from
\* Resolving, Dialing or ReadingBody; RoundTrip is called at most once.
C8_Original ==
    [][ /\ State' # State =>
             \/ State' = "Failed" /\ State \in {"Resolving", "Dialing", "ReadingBody"}
             \/ State' # "Failed" /\ Rank(State') = Rank(State) + 1
        /\ roundTrips' <= 1 ]_vars

\* C8 amended: as stated, except that Failed is also entered from
\* AwaitingHeaders (RoundTrip returns an error after the connection is made)
\* and that AwaitingHeaders may fall back to Dialing (the transport dials a
\* new connection inside the one RoundTrip call); main calls RoundTrip at
\* most once.
C8_StateSequence ==
    [][ /\ State' # State =>
             \/ /\ State' = "Failed"
                /\ State \in {"Resolving", "Dialing", "AwaitingHeaders", "ReadingBody"}
             \/ State' # "Failed" /\ Rank(State') = Rank(State) + 1
             \/ State = "AwaitingHeaders" /\ State' = "Dialing"
        /\ roundTrips' <= 1 ]_vars

C8_Witness ==
    /\ State = "Failed"
    /\ fatal = "request failed"
    /\ roundTrips = 1
    /\ Len(dialLog) = 2
    /\ dialLog[2].outcome = "connected"
    /\ Len(tlsLog) = 2
    /\ tlsLog[2].cert = host

\* C9: a run that ends with "parsing url failed", "url missing host" or
\* "unknown url scheme" has called neither RoundTrip nor the dialer.
C9_ValidationBeforeNetwork ==
    fatal \in {"parsing url failed", "url missing host", "unknown url scheme"} =>
        roundTrips = 0 /\ dialLog = <<>> /\ tlsLog = <<>>

C9_Witness ==
    /\ fatal = "unknown url scheme"
    /\ Overridden
    /\ pc = "exited"
====
